---- MODULE Spec2Model ----
(***************************************************************************)
(* Model of node/narwhal/src/helpers/cache.rs: the Cache of seven          *)
(* RwLock<BTreeMap<OffsetDateTime, HashMap<K, u32>>> fields and the shared *)
(* algorithm Cache::retain_and_insert, called concurrently by NumProcs     *)
(* threads under a non-decreasing wall clock.                              *)
(*                                                                         *)
(* Time is counted in ticks; one second is TicksPerSec ticks, so that      *)
(* Duration::seconds is a real conversion.  A BTreeMap is a function whose *)
(* DOMAIN is the set of timestamps that have a bucket; a HashMap is a      *)
(* function whose DOMAIN is the set of keys present.                       *)
(***************************************************************************)
EXTENDS Integers, Sequences, FiniteSets, TLC

\* ---------------------------------------------------------------- bounds
NumProcs == 2          \* concurrent caller threads
NumCats == 2           \* how many of the seven insert methods are exercised
NumKeys == 2           \* distinct keys
MaxInterval == 1       \* largest interval_in_secs passed (smallest is -1)
MaxTime == 3           \* the clock stops advancing at this tick
MaxCalls == 3          \* total number of calls started
TicksPerSec == 2       \* clock ticks per second

\* ------------------------------------------------------------- constants
MinTimestamp == 0                        \* smallest representable OffsetDateTime
MaxTimestamp == MaxTime + 1              \* largest representable OffsetDateTime
NoHolder == 0                            \* the RwLock is free

Procs == 1..NumProcs
Keys == 1..NumKeys
Intervals == (-1)..MaxInterval
Timestamps == MinTimestamp..MaxTimestamp

\* The seven insert methods and the seven fields, in declaration order.
AllMethods ==
  << "insert_inbound_connection", "insert_inbound_event",
     "insert_inbound_certificate", "insert_inbound_transmission",
     "insert_outbound_event", "insert_outbound_certificate",
     "insert_outbound_transmission" >>

AllFields ==
  << "seen_inbound_connections", "seen_inbound_events",
     "seen_inbound_certificates", "seen_inbound_transmissions",
     "seen_outbound_events", "seen_outbound_certificates",
     "seen_outbound_transmissions" >>

Fields == { AllFields[i] : i \in 1..7 }
Methods == { AllMethods[i] : i \in 1..NumCats }

\* FieldOf with insert_inbound_event forwarding to the field of
\* insert_inbound_connection.
FieldOfCopied(m) ==
  CASE m = "insert_inbound_connection"    -> "seen_inbound_connections"
    [] m = "insert_inbound_event"         -> "seen_inbound_connections"
    [] m = "insert_inbound_certificate"   -> "seen_inbound_certificates"
    [] m = "insert_inbound_transmission"  -> "seen_inbound_transmissions"
    [] m = "insert_outbound_event"        -> "seen_outbound_events"
    [] m = "insert_outbound_certificate"  -> "seen_outbound_certificates"
    [] m = "insert_outbound_transmission" -> "seen_outbound_transmissions"

\* The field each insert method forwards to.
FieldOf(m) ==
  CASE m = "insert_inbound_connection"    -> "seen_inbound_connections"
    [] m = "insert_inbound_event"         -> "seen_inbound_events"
    [] m = "insert_inbound_certificate"   -> "seen_inbound_certificates"
    [] m = "insert_inbound_transmission"  -> "seen_inbound_transmissions"
    [] m = "insert_outbound_event"        -> "seen_outbound_events"
    [] m = "insert_outbound_certificate"  -> "seen_outbound_certificates"
    [] m = "insert_outbound_transmission" -> "seen_outbound_transmissions"

\* ------------------------------------------------------- pure operations
EmptyMap == [t \in {} |-> 0]

SetMin(S) == CHOOSE x \in S : \A y \in S : x <= y

\* Seconds with the interval taken as a number of ticks.
SecondsAsTicks(s) == s

\* Duration::seconds(interval_in_secs)
Seconds(s) == s * TicksPerSec

\* SaturatingSub wrapping around the timestamp range instead of clamping.
WrappingSub(t, d) ==
  MinTimestamp + ((t - d - MinTimestamp) % (MaxTimestamp - MinTimestamp + 1))

\* SaturatingSub taking the magnitude of the duration.
SaturatingSubAbs(t, d) ==
  LET a == IF d < 0 THEN 0 - d ELSE d
  IN IF t - a < MinTimestamp THEN MinTimestamp ELSE t - a

\* OffsetDateTime::saturating_sub(duration)
SaturatingSub(t, d) ==
  IF t - d < MinTimestamp THEN MinTimestamp
  ELSE IF t - d > MaxTimestamp THEN MaxTimestamp
  ELSE t - d

\* Cutoff with one fixed window for the map instead of the call's interval.
CutoffFixedWindow(t, w) == SaturatingSub(t, Seconds(MaxInterval))

\* now.saturating_sub(Duration::seconds(interval_in_secs))
Cutoff(t, w) == SaturatingSub(t, Seconds(w))

\* GetOrZero summing the counts of every key of the bucket.
RECURSIVE SumValues(_)
SumValues(cache_keys) ==
  IF DOMAIN cache_keys = {} THEN 0
  ELSE LET x == CHOOSE y \in DOMAIN cache_keys : TRUE
       IN cache_keys[x] + SumValues([y \in DOMAIN cache_keys \ {x} |-> cache_keys[y]])

GetAnyKey(cache_keys, k) == SumValues(cache_keys)

\* cache_keys.get(&key).unwrap_or(&0)
GetOrZero(cache_keys, k) == IF k \in DOMAIN cache_keys THEN cache_keys[k] ELSE 0

\* EntryIncrement replacing the bucket at `t` by a fresh one holding only k.
EntryOverwrite(m, t, k) ==
  [x \in DOMAIN m \cup {t} |-> IF x = t THEN [y \in {k} |-> 1] ELSE m[x]]

\* EntryIncrement stopping after or_default(): the key is stored with the
\* default count 0 and never incremented.
EntryDefaultOnly(m, t, k) ==
  LET bucket == IF t \in DOMAIN m THEN m[t] ELSE EmptyMap
      nb == [x \in DOMAIN bucket \cup {k} |-> GetOrZero(bucket, x)]
  IN [x \in DOMAIN m \cup {t} |-> IF x = t THEN nb ELSE m[x]]

\* EntryIncrement that sets a missing key to 1 and leaves a present key as is.
EntryInsertIfAbsent(m, t, k) ==
  LET bucket == IF t \in DOMAIN m THEN m[t] ELSE EmptyMap
      nb == [x \in DOMAIN bucket \cup {k} |->
               IF x \in DOMAIN bucket THEN bucket[x] ELSE 1]
  IN [x \in DOMAIN m \cup {t} |-> IF x = t THEN nb ELSE m[x]]

\* *map_write.entry(now).or_default().entry(key).or_default() += 1
EntryIncrement(m, t, k) ==
  LET bucket == IF t \in DOMAIN m THEN m[t] ELSE EmptyMap
      nb == [x \in DOMAIN bucket \cup {k} |->
               IF x = k THEN GetOrZero(bucket, k) + 1 ELSE bucket[x]]
  IN [x \in DOMAIN m \cup {t} |-> IF x = t THEN nb ELSE m[x]]

\* SplitOff keeping only the entries strictly after `at`.
SplitOffStrict(m, at) == [t \in {x \in DOMAIN m : x > at} |-> m[t]]

\* SplitOff returning the whole map: nothing is ever expired.
SplitOffKeepsAll(m, at) == m

\* map_write.split_off(&at): the entries with a timestamp at or after `at`
SplitOff(m, at) == [t \in {x \in DOMAIN m : x >= at} |-> m[t]]

\* MapInsert dropping every other entry of the map.
MapInsertReplacing(m, t, v) == [x \in {t} |-> v]

\* map_write.insert(time, cache_keys)
MapInsert(m, t, v) == [x \in DOMAIN m \cup {t} |-> IF x = t THEN v ELSE m[x]]

\* what the for loop leaves of `retained` after consuming its first entry
Rest(m) == [t \in DOMAIN m \ {SetMin(DOMAIN m)} |-> m[t]]

\* for (time, cache_keys) in retained { cache_hits += ..; map_write.insert(..) }
\* in ascending timestamp order; yields the map and the sum when the loop ends
RECURSIVE Reinsert(_, _, _, _)
Reinsert(rest, map_write, cache_hits, k) ==
  IF DOMAIN rest = {} THEN [map |-> map_write, cache_hits |-> cache_hits]
  ELSE LET time == SetMin(DOMAIN rest)
           cache_keys == rest[time]
       IN Reinsert(Rest(rest), MapInsert(map_write, time, cache_keys),
                   cache_hits + GetOrZero(cache_keys, k), k)

\* Retain without map_write.clear(): the expired entries stay in the map.
RetainNoClear(m, k, w, t) ==
  LET at == Cutoff(t, w)
      retained == SplitOff(m, at)
      expired == [x \in {y \in DOMAIN m : y < at} |-> m[x]]
  IN Reinsert(retained, expired, 0, k)

\* Retain summing the key's counts before the expired buckets are dropped.
RetainCountsBeforeEviction(m, k, w, t) ==
  LET retained == SplitOff(m, Cutoff(t, w))
  IN [map |-> Reinsert(retained, EmptyMap, 0, k).map,
      cache_hits |-> Reinsert(m, EmptyMap, 0, k).cache_hits]

\* What follows the insert under the write lock: split off the non-expired
\* subtree, clear the map, reinsert and sum.  Yields the map left and the
\* count returned.
Retain(m, k, w, t) ==
  LET retained == SplitOff(m, Cutoff(t, w))
  IN Reinsert(retained, EmptyMap, 0, k)

\* The body of retain_and_insert once the write lock is held: the map it
\* leaves and the count it returns.
RetainAndInsert(m, k, w, t) == Retain(EntryIncrement(m, t, k), k, w, t)

\* ----------------------------------------------------------------- state
VARIABLES
  clock,             \* the wall clock, in ticks
  seen,              \* seen[f]: the BTreeMap behind field f
  lock,              \* lock[f]: the thread holding f's write lock, or NoHolder
  pc,                \* pc[p]: where thread p is in retain_and_insert
  method,            \* method[p]: the insert method thread p called
  key,               \* key[p]
  interval_in_secs,  \* interval_in_secs[p]
  now,               \* now[p]: the timestamp fetched by thread p
  log,               \* log[f]: the calls that returned on f, in lock order, each
                     \* with its key, timestamp, interval, returned count and
                     \* the map it left
  ncalls             \* number of calls started so far

vars == << clock, seen, lock, pc, method, key, interval_in_secs, now, log, ncalls >>

locals == << method, key, interval_in_secs, now >>

Init ==
  /\ clock = MinTimestamp
  /\ seen = [f \in Fields |-> EmptyMap]
  /\ lock = [f \in Fields |-> NoHolder]
  /\ pc = [p \in Procs |-> "idle"]
  /\ method = [p \in Procs |-> AllMethods[1]]
  /\ key = [p \in Procs |-> 1]
  /\ interval_in_secs = [p \in Procs |-> 0]
  /\ now = [p \in Procs |-> MinTimestamp]
  /\ log = [f \in Fields |-> << >>]
  /\ ncalls = 0

\* The clock advances; nothing else happens.
Tick ==
  /\ clock < MaxTime
  /\ clock' = clock + 1
  /\ UNCHANGED << seen, lock, pc, locals, log, ncalls >>

\* insert_*(key, interval_in_secs) is called and retain_and_insert fetches
\* the current timestamp, before it asks for the lock.  At most `limit` calls
\* are started.
Call(p, m, k, w, limit) ==
  /\ pc[p] = "idle"
  /\ ncalls < limit
  /\ method' = [method EXCEPT ![p] = m]
  /\ key' = [key EXCEPT ![p] = k]
  /\ interval_in_secs' = [interval_in_secs EXCEPT ![p] = w]
  /\ now' = [now EXCEPT ![p] = clock]
  /\ pc' = [pc EXCEPT ![p] = "fetched"]
  /\ ncalls' = ncalls + 1
  /\ UNCHANGED << clock, seen, lock, log >>

Fetch(p, m, k, w) == Call(p, m, k, w, MaxCalls)

\* Acquire on a cache with a single lock shared by the seven maps.
AcquireGlobal(p) ==
  /\ pc[p] = "fetched"
  /\ \A f \in Fields : lock[f] = NoHolder
  /\ lock' = [lock EXCEPT ![FieldOf(method[p])] = p]
  /\ pc' = [pc EXCEPT ![p] = "locked"]
  /\ UNCHANGED << clock, seen, locals, log, ncalls >>

\* Acquire taking the lock without waiting for its holder (shared access).
AcquireShared(p) ==
  /\ pc[p] = "fetched"
  /\ lock' = [lock EXCEPT ![FieldOf(method[p])] = p]
  /\ pc' = [pc EXCEPT ![p] = "locked"]
  /\ UNCHANGED << clock, seen, locals, log, ncalls >>

\* let mut map_write = map.write()
Acquire(p) ==
  /\ pc[p] = "fetched"
  /\ lock[FieldOf(method[p])] = NoHolder
  /\ lock' = [lock EXCEPT ![FieldOf(method[p])] = p]
  /\ pc' = [pc EXCEPT ![p] = "locked"]
  /\ UNCHANGED << clock, seen, locals, log, ncalls >>

\* *map_write.entry(now).or_default().entry(key).or_default() += 1
Insert(p) ==
  /\ pc[p] = "locked"
  /\ seen' = [seen EXCEPT ![FieldOf(method[p])] = EntryIncrement(@, now[p], key[p])]
  /\ pc' = [pc EXCEPT ![p] = "inserted"]
  /\ UNCHANGED << clock, lock, locals, log, ncalls >>

\* Return that leaves the write guard alive: the lock is never released.
ReturnKeepsLock(p) ==
  /\ pc[p] = "inserted"
  /\ LET f == FieldOf(method[p])
         r == Retain(seen[f], key[p], interval_in_secs[p], now[p])
     IN /\ seen' = [seen EXCEPT ![f] = r.map]
        /\ log' = [log EXCEPT ![f] =
             Append(@, [key |-> key[p], now |-> now[p],
                        interval |-> interval_in_secs[p], count |-> r.cache_hits,
                        after |-> r.map])]
  /\ pc' = [pc EXCEPT ![p] = "idle"]
  /\ method' = [method EXCEPT ![p] = AllMethods[1]]
  /\ key' = [key EXCEPT ![p] = 1]
  /\ interval_in_secs' = [interval_in_secs EXCEPT ![p] = 0]
  /\ now' = [now EXCEPT ![p] = MinTimestamp]
  /\ UNCHANGED << clock, lock, ncalls >>

\* With the lock held and the insert done: split off, clear, reinsert and
\* sum; then return cache_hits, which drops the write guard and the call's
\* frame.
Return(p) ==
  /\ pc[p] = "inserted"
  /\ LET f == FieldOf(method[p])
         r == Retain(seen[f], key[p], interval_in_secs[p], now[p])
     IN /\ seen' = [seen EXCEPT ![f] = r.map]
        /\ lock' = [lock EXCEPT ![f] = NoHolder]
        /\ log' = [log EXCEPT ![f] =
             Append(@, [key |-> key[p], now |-> now[p],
                        interval |-> interval_in_secs[p], count |-> r.cache_hits,
                        after |-> r.map])]
  /\ pc' = [pc EXCEPT ![p] = "idle"]
  /\ method' = [method EXCEPT ![p] = AllMethods[1]]
  /\ key' = [key EXCEPT ![p] = 1]
  /\ interval_in_secs' = [interval_in_secs EXCEPT ![p] = 0]
  /\ now' = [now EXCEPT ![p] = MinTimestamp]
  /\ UNCHANGED << clock, ncalls >>

Next ==
  \/ Tick
  \/ \E p \in Procs, m \in Methods, k \in Keys, w \in Intervals : Fetch(p, m, k, w)
  \/ \E p \in Procs : Acquire(p)
  \/ \E p \in Procs : Insert(p)
  \/ \E p \in Procs : Return(p)

Spec == Init /\ [][Next]_vars

\* The same threads calling any of the seven insert methods, with one key
\* and the interval 0.
NextSeven ==
  \/ Tick
  \/ \E p \in Procs, i \in 1..7, w \in {0} : Fetch(p, AllMethods[i], 1, w)
  \/ \E p \in Procs : Acquire(p)
  \/ \E p \in Procs : Insert(p)
  \/ \E p \in Procs : Return(p)

SpecSeven == Init /\ [][NextSeven]_vars

\* The same threads making one call more on one map, with one key and
\* non-negative intervals.
NextLong ==
  \/ Tick
  \/ \E p \in Procs, w \in 0..MaxInterval : Call(p, AllMethods[1], 1, w, MaxCalls + 1)
  \/ \E p \in Procs : Acquire(p)
  \/ \E p \in Procs : Insert(p)
  \/ \E p \in Procs : Return(p)

SpecLong == Init /\ [][NextLong]_vars

\* The threads calling the first NumCats insert methods with one key and the
\* interval 0, under a fair scheduler: a thread holding the lock keeps
\* running (weak fairness of Insert and Return), and a thread waiting in
\* map.write() gets the lock if it is free again and again (strong fairness
\* of Acquire: parking_lot's RwLock hands the lock over fairly in the end).
NextFair ==
  \/ Tick
  \/ \E p \in Procs, m \in Methods : Fetch(p, m, 1, 0)
  \/ \E p \in Procs : Acquire(p)
  \/ \E p \in Procs : Insert(p)
  \/ \E p \in Procs : Return(p)

Fairness ==
  \A p \in Procs :
    /\ SF_vars(Acquire(p))
    /\ WF_vars(Insert(p))
    /\ WF_vars(Return(p))

SpecFair == Init /\ [][NextFair]_vars /\ Fairness

TypeOK ==
  /\ clock \in MinTimestamp..MaxTime
  /\ \A f \in Fields : DOMAIN seen[f] \subseteq Timestamps
  /\ \A f \in Fields : lock[f] \in Procs \cup {NoHolder}

\* ------------------------------------------------ vocabulary of the claims
\* The window start a call asks for, now - w seconds, before any clamping.
WindowStart(e) == e.now - e.interval * TicksPerSec

\* The cutoff a call evicts at: its window start clamped to the timestamp range.
EvictsBelow(e) ==
  IF WindowStart(e) < MinTimestamp THEN MinTimestamp
  ELSE IF WindowStart(e) > MaxTimestamp THEN MaxTimestamp
  ELSE WindowStart(e)

\* The calls on f up to the j-th made with the key of the j-th.
SameKey(f, j) == { i \in 1..j : log[f][i].key = log[f][j].key }

\* The map the j-th call on f found.
Before(f, j) == IF j = 1 THEN EmptyMap ELSE log[f][j - 1].after

\* The timestamps of the calls on f up to the j-th are in lock order.
InOrder(f, j) == \A i \in 1..j : \A l \in i..j : log[f][i].now <= log[f][l].now

\* Sum of k's counts over every bucket of map m.
RECURSIVE SumKey(_, _)
SumKey(m, k) ==
  IF DOMAIN m = {} THEN 0
  ELSE LET t == CHOOSE x \in DOMAIN m : TRUE
       IN (IF k \in DOMAIN m[t] THEN m[t][k] ELSE 0)
          + SumKey([x \in DOMAIN m \ {t} |-> m[x]], k)

\* ---------------------------------------------------------------- claims

\* C1 (as stated): after any sequence of earlier calls, with any intervals,
\* a call with w >= 0 returns the number of calls for its key, itself
\* included, whose timestamp lies within the last w seconds of its own.
\* Stated for histories whose timestamps are in lock order and whose
\* intervals are all non-negative.
C1_CountsEveryCallInWindow ==
  \A f \in Fields : \A j \in 1..Len(log[f]) :
    ((\A i \in 1..j : log[f][i].interval >= 0) /\ InOrder(f, j)) =>
      log[f][j].count =
        Cardinality({ i \in SameKey(f, j) :
                        /\ log[f][i].now >= WindowStart(log[f][j])
                        /\ log[f][i].now <= log[f][j].now })

\* C1 (amended): a call with w >= 0 returns the number of calls for its key,
\* itself included, whose timestamp is at or after the cutoff of every call
\* that took the lock from that call on, this call included: an earlier call
\* with a later cutoff has already evicted what this call's window covers.
C1_CountsCallsNotEvicted ==
  \A f \in Fields : \A j \in 1..Len(log[f]) :
    log[f][j].interval >= 0 =>
      log[f][j].count =
        Cardinality({ i \in SameKey(f, j) :
                        \A l \in i..j : log[f][i].now >= EvictsBelow(log[f][l]) })

\* C1 witness: a call with w >= 0 returned 2 after an earlier call for the
\* same key had been evicted by a call with a shorter interval.
C1_Witness ==
  \E f \in Fields : \E j \in 1..Len(log[f]) :
    /\ log[f][j].interval >= 0
    /\ log[f][j].count = 2
    /\ Cardinality(SameKey(f, j)) = 3
    /\ \A i \in 1..j : log[f][i].interval >= 0
    /\ \E i \in 1..j : log[f][i].interval < log[f][j].interval

\* C2: every call with w >= 0 returns at least 1.
C2_CountAtLeastOne ==
  \A f \in Fields : \A j \in 1..Len(log[f]) :
    log[f][j].interval >= 0 => log[f][j].count >= 1

\* C2 witness: a call with w = 0 returned exactly 1 on a map that held
\* buckets, after another thread fetched its timestamp.
C2_Witness ==
  \E f \in Fields : \E j \in 2..Len(log[f]) :
    /\ log[f][j].interval = 0
    /\ log[f][j].count = 1
    /\ DOMAIN Before(f, j) # {}
    /\ \E p \in Procs : pc[p] = "fetched"

\* The first call on f made with the key of the j-th call.
FirstSameKey(f, j) == SetMin(SameKey(f, j))

\* C3: for a key never inserted before and a fixed interval w, while the calls
\* made since the key's first call all pass w and all lie less than w seconds
\* after the key's earliest timestamp, the i-th call for the key returns i,
\* whatever calls for other keys come between.
C3_IthCallReturnsI ==
  \A f \in Fields : \A j \in 1..Len(log[f]) :
    LET first == FirstSameKey(f, j)
        w == log[f][j].interval
        t0 == SetMin({ log[f][i].now : i \in SameKey(f, j) })
    IN (\A i \in first..j : /\ log[f][i].interval = w
                            /\ log[f][i].now - t0 < w * TicksPerSec)
       => log[f][j].count = Cardinality(SameKey(f, j))

\* C3 witness: the second call for a key returned 2 with a call for another
\* key between the two, and time passed between them.
C3_Witness ==
  \E f \in Fields : \E j \in 1..Len(log[f]) :
    /\ j = 3
    /\ SameKey(f, j) = {1, 3}
    /\ \A i \in 1..j : log[f][i].interval = 1
    /\ log[f][1].now < log[f][3].now
    /\ log[f][j].count = 2

\* C4 (as stated): when every earlier call on the map has a timestamp more
\* than w seconds before this call's, the call returns 1 and leaves exactly
\* one bucket.
C4_ExpiredReturnsOne ==
  \A f \in Fields : \A j \in 2..Len(log[f]) :
    (\A i \in 1..(j - 1) : log[f][i].now + log[f][j].interval * TicksPerSec < log[f][j].now)
      => /\ log[f][j].count = 1
         /\ Cardinality(DOMAIN log[f][j].after) = 1

\* C4 (amended): the same for w >= 0.
C4_ExpiredReturnsOneNonNeg ==
  \A f \in Fields : \A j \in 2..Len(log[f]) :
    (/\ log[f][j].interval >= 0
     /\ \A i \in 1..(j - 1) :
          log[f][i].now + log[f][j].interval * TicksPerSec < log[f][j].now)
      => /\ log[f][j].count = 1
         /\ Cardinality(DOMAIN log[f][j].after) = 1

\* C4 witness: after two calls with w = 1 for a key, a third with w = 1, more
\* than a second later, found two buckets and left one.
C4_Witness ==
  \E f \in Fields : \E j \in 1..Len(log[f]) :
    /\ j = 3
    /\ \A i \in 1..3 : log[f][i].interval = 1 /\ log[f][i].key = log[f][3].key
    /\ \A i \in 1..2 : log[f][i].now + TicksPerSec < log[f][3].now
    /\ log[f][2].count = 2
    /\ Cardinality(DOMAIN Before(f, 3)) >= 1
    /\ log[f][3].count = 1

\* The calls on f made with a key other than k1, in lock order.
WithoutKey(f, k1) == SelectSeq(log[f], LAMBDA e : e.key # k1)

\* The counts the calls of history h return when made, with their recorded
\* timestamps and intervals, one after another on map m.
RECURSIVE Replay(_, _)
Replay(h, m) ==
  IF h = << >> THEN << >>
  ELSE LET r == RetainAndInsert(m, h[1].key, h[1].interval, h[1].now)
       IN << r.cache_hits >> \o Replay(Tail(h), r.map)

\* The place of the j-th call on f in WithoutKey(f, k1).
PlaceWithout(f, j, k1) == Cardinality({ i \in 1..j : log[f][i].key # k1 })

\* C5 (as stated): the calls for keys other than k1 return the same counts as
\* in the history that differs only by having no call for k1, whatever
\* intervals the k1 calls pass.  Stated for histories whose timestamps are in
\* lock order and whose intervals are all non-negative.
C5_OtherKeysNeverAffect ==
  \A f \in Fields : \A k1 \in Keys :
    ((\A i \in 1..Len(log[f]) : log[f][i].interval >= 0) /\ InOrder(f, Len(log[f])))
      => LET h == WithoutKey(f, k1)
         IN Replay(h, EmptyMap) = [i \in 1..Len(h) |-> h[i].count]

\* C5 (amended): a call for a key other than k1 returns the same count as in
\* the history without the k1 calls when every earlier k1 call has its cutoff
\* at or before this call's cutoff (so with one interval and timestamps in
\* lock order): such k1 calls evict only buckets this call evicts itself.
C5_OtherKeysWithEarlierCutoff ==
  \A f \in Fields : \A k1 \in Keys : \A j \in 1..Len(log[f]) :
    (/\ log[f][j].key # k1
     /\ \A i \in 1..j : log[f][i].key = k1
                          => EvictsBelow(log[f][i]) <= EvictsBelow(log[f][j]))
      => log[f][j].count = Replay(WithoutKey(f, k1), EmptyMap)[PlaceWithout(f, j, k1)]

\* C5 witness: two calls for one key returned 1 and 2, with a call for
\* another key between them that wrote into the bucket of the first.
C5_Witness ==
  \E f \in Fields :
    /\ Len(log[f]) = 3
    /\ log[f][1].key = log[f][3].key
    /\ log[f][2].key # log[f][1].key
    /\ log[f][2].now = log[f][1].now
    /\ \A i \in 1..3 : log[f][i].interval = 1
    /\ log[f][3].count = 2

\* C6: the occurrences a call counts were all recorded in buckets whose
\* timestamp lies between now - w and now.
C6_CountsOnlyInsideWindow ==
  \A f \in Fields : \A j \in 1..Len(log[f]) :
    \A t \in DOMAIN log[f][j].after :
      log[f][j].key \in DOMAIN log[f][j].after[t]
        => (WindowStart(log[f][j]) <= t /\ t <= log[f][j].now)

\* The place of field f in the declaration order.
FieldIndex(f) == CHOOSE i \in 1..7 : AllFields[i] = f

\* Thread p, inside the insert method that belongs to field f and holding the
\* lock, takes a step.
WritesOn(p, f) ==
  /\ pc[p] \in {"locked", "inserted"}
  /\ pc'[p] # pc[p]
  /\ method[p] = AllMethods[FieldIndex(f)]

\* C7: a field's map changes only in a step of a call of that field's own
\* insert method; no other insert method and no clock tick changes it.
C7_OnlyOwnInsertChangesMap ==
  [][\A f \in Fields : seen'[f] # seen[f] => \E p \in Procs : WritesOn(p, f)]_vars

\* C7 witness: two maps hold buckets, one of them a bucket older than the
\* longest interval, while a call on the other map holds its lock.
C7_Witness ==
  \E f \in Fields, g \in Fields :
    /\ f # g
    /\ \E t \in DOMAIN seen[f] : t + MaxInterval * TicksPerSec < clock
    /\ DOMAIN seen[g] # {}
    /\ lock[g] # NoHolder
    /\ lock[f] = NoHolder

\* C8 (as stated): a call with a negative w leaves the bucket at its own
\* timestamp in the map.
C8_NegativeKeepsOwnBucket ==
  \A f \in Fields : \A j \in 1..Len(log[f]) :
    log[f][j].interval < 0 => log[f][j].now \in DOMAIN log[f][j].after

\* C8 (amended): a call with a negative w discards, within that same call,
\* the bucket at its own timestamp: every bucket it leaves is later than now.
C8_NegativeDiscardsOwnBucket ==
  \A f \in Fields : \A j \in 1..Len(log[f]) :
    log[f][j].interval < 0 =>
      /\ log[f][j].now \notin DOMAIN log[f][j].after
      /\ \A t \in DOMAIN log[f][j].after : t > log[f][j].now

\* C8 witness: a call with a negative w found a bucket at its own timestamp,
\* left the map without it and returned 0.
C8_Witness ==
  \E f \in Fields : \E j \in 1..Len(log[f]) :
    /\ log[f][j].interval < 0
    /\ log[f][j].now \in DOMAIN Before(f, j)
    /\ log[f][j].now \notin DOMAIN log[f][j].after
    /\ log[f][j].count = 0

\* C9: when now - interval falls below the minimum timestamp the call evicts
\* no bucket and returns the sum of the key's counts over every bucket.
C9_UnderflowKeepsEverything ==
  \A f \in Fields : \A j \in 1..Len(log[f]) :
    WindowStart(log[f][j]) < MinTimestamp =>
      /\ DOMAIN log[f][j].after = DOMAIN Before(f, j) \cup {log[f][j].now}
      /\ log[f][j].count = SumKey(Before(f, j), log[f][j].key) + 1
      /\ log[f][j].count = SumKey(log[f][j].after, log[f][j].key)

\* C9 witness: a call whose window starts before the minimum timestamp found
\* an older bucket holding its key and returned 2.
C9_Witness ==
  \E f \in Fields : \E j \in 1..Len(log[f]) :
    /\ WindowStart(log[f][j]) < MinTimestamp
    /\ \E t \in DOMAIN Before(f, j) : t < log[f][j].now
    /\ log[f][j].count = 2

\* C10: the timestamps written to a map are non-decreasing in the order the
\* calls take the lock.
C10_TimestampsInLockOrder ==
  \A f \in Fields : InOrder(f, Len(log[f]))

\* The last call that returned on f.
LastCall(f) == log[f][Len(log[f])]

\* C11 (as stated): in every reachable state, also after the clock advanced
\* with no call, every bucket of a map has a timestamp at or after the
\* current time minus the interval of the most recent call on that map.
C11_BucketsInsideLastWindow ==
  \A f \in Fields :
    (Len(log[f]) > 0 /\ lock[f] = NoHolder) =>
      \A t \in DOMAIN seen[f] : t >= clock - LastCall(f).interval * TicksPerSec

\* C11 (amended): when a call returns, every bucket of the map it leaves has
\* a timestamp at or after that call's own timestamp minus its interval; the
\* buckets stay as they are, whatever the clock does, until the next insert
\* on that map.
C11_BucketsInsideWindowAtReturn ==
  \A f \in Fields :
    /\ \A j \in 1..Len(log[f]) :
         \A t \in DOMAIN log[f][j].after : t >= WindowStart(log[f][j])
    /\ (Len(log[f]) > 0 /\ lock[f] = NoHolder) => seen[f] = LastCall(f).after

\* C11 witness: a call evicted a bucket, and the clock has since moved past
\* the window of a bucket it left.
C11_Witness ==
  \E f \in Fields :
    /\ Len(log[f]) > 0
    /\ lock[f] = NoHolder
    /\ DOMAIN Before(f, Len(log[f])) \ DOMAIN LastCall(f).after # {}
    /\ \E t \in DOMAIN seen[f] : t < clock - LastCall(f).interval * TicksPerSec

\* The bucket map m holds at timestamp t, empty when it has none.
BucketAt(m, t) == IF t \in DOMAIN m THEN m[t] ELSE EmptyMap

\* The j-th call on f left exactly the buckets it found at or after its
\* now - w, unchanged, plus the bucket at now with its key's count one higher
\* and the other keys' counts unchanged.
LeavesWindowPlusOwn(f, j) ==
  LET e == log[f][j]
      old == BucketAt(Before(f, j), e.now)
  IN /\ DOMAIN e.after =
          { t \in DOMAIN Before(f, j) : t >= WindowStart(e) } \cup {e.now}
     /\ \A t \in DOMAIN e.after \ {e.now} : e.after[t] = Before(f, j)[t]
     /\ DOMAIN e.after[e.now] = DOMAIN old \cup {e.key}
     /\ e.after[e.now][e.key] = (IF e.key \in DOMAIN old THEN old[e.key] ELSE 0) + 1
     /\ \A x \in DOMAIN old \ {e.key} : e.after[e.now][x] = old[x]

\* C12 (as stated): after every call the map holds exactly the buckets that
\* were present with timestamp >= now - w, unchanged, plus the bucket at now
\* with k's count increased by 1; the cutoff uses only this call's now and w.
C12_ExactlyWindowPlusOwnBucket ==
  \A f \in Fields : \A j \in 1..Len(log[f]) : LeavesWindowPlusOwn(f, j)

\* C12 (amended): the same for calls with w >= 0.
C12_ExactlyWindowPlusOwnBucketNonNeg ==
  \A f \in Fields : \A j \in 1..Len(log[f]) :
    log[f][j].interval >= 0 => LeavesWindowPlusOwn(f, j)

\* C12 witness: a call with w >= 0 evicted one bucket it found and kept
\* another, after a call that passed a different interval.
C12_Witness ==
  \E f \in Fields : \E j \in 1..Len(log[f]) :
    /\ log[f][j].interval >= 0
    /\ DOMAIN Before(f, j) \ DOMAIN log[f][j].after # {}
    /\ (DOMAIN Before(f, j) \cap DOMAIN log[f][j].after) \ {log[f][j].now} # {}
    /\ \E i \in 1..(j - 1) : log[f][i].interval # log[f][j].interval

\* The timestamps recorded by the calls on f up to the j-th that are not
\* expired with respect to the window of the j-th.
InWindow(f, j) ==
  { log[f][i].now : i \in { x \in 1..j : log[f][x].now >= WindowStart(log[f][j]) } }

\* C13: after any call that evicts at least one bucket, with the calls free
\* to use different intervals, the number of buckets in the map equals the
\* number of distinct timestamps of inserts not expired with respect to that
\* call's window.
C13_AfterEvictingCall ==
  \A f \in Fields : \A j \in 1..Len(log[f]) :
    (DOMAIN Before(f, j) \ DOMAIN log[f][j].after # {}) =>
      Cardinality(DOMAIN log[f][j].after) = Cardinality(InWindow(f, j))

\* C14: the count a call returns equals the sum of its key's counts over all
\* buckets the map holds when the call releases the lock, and the map keeps
\* that state while no call holds the lock.
C14_CountEqualsStoredSum ==
  \A f \in Fields :
    /\ \A j \in 1..Len(log[f]) :
         log[f][j].count = SumKey(log[f][j].after, log[f][j].key)
    /\ (Len(log[f]) > 0 /\ lock[f] = NoHolder) =>
         LastCall(f).count = SumKey(seen[f], LastCall(f).key)

\* C14 witness: a call evicted a bucket holding its key and left a bucket
\* that also holds another key; the lock is free again.
C14_Witness ==
  \E f \in Fields :
    /\ Len(log[f]) > 0
    /\ lock[f] = NoHolder
    /\ SumKey(Before(f, Len(log[f])), LastCall(f).key) + 1 > LastCall(f).count
    /\ \E t \in DOMAIN seen[f] : DOMAIN seen[f][t] \ {LastCall(f).key} # {}
    /\ LastCall(f).count >= 1

\* Thread p is between taking the write lock and returning.
InCriticalSection(p) == pc[p] \in {"locked", "inserted"}

\* The time between the earliest and the latest timestamp of the calls on f
\* up to the j-th.
Span(f, j) ==
  LET ts == { log[f][i].now : i \in 1..j }
  IN (CHOOSE x \in ts : \A y \in ts : y <= x) - SetMin(ts)

\* C15: for calls with one key and one interval w on an initially empty map,
\* w larger than the time span of the calls, the counts returned are 1, 2,
\* ..., m in lock order, and no two calls are inside the critical section of
\* one map together.
C15_ConcurrentCallsCountUp ==
  /\ \A f \in Fields : \A j \in 1..Len(log[f]) :
       (/\ \A i \in 1..j : /\ log[f][i].key = log[f][j].key
                           /\ log[f][i].interval = log[f][j].interval
        /\ Span(f, j) < log[f][j].interval * TicksPerSec)
         => log[f][j].count = j
  /\ \A p \in Procs, q \in Procs :
       (p # q /\ InCriticalSection(p) /\ InCriticalSection(q))
         => FieldOf(method[p]) # FieldOf(method[q])

\* C15 witness: three calls with one key and w = 1 returned 1, 2, 3; the
\* second fetched its timestamp before the first and took the lock after it.
C15_Witness ==
  \E f \in Fields :
    /\ Len(log[f]) = 3
    /\ \A i \in 1..3 : /\ log[f][i].key = log[f][1].key
                       /\ log[f][i].interval = 1
                       /\ log[f][i].count = i
    /\ log[f][2].now < log[f][1].now

\* The first j calls on f are made one after the other for one key, and each
\* of them has all the calls up to itself within its interval.
BackToBack(f, j) ==
  /\ InOrder(f, j)
  /\ \A i \in 1..j :
       /\ log[f][i].key = log[f][j].key
       /\ \A h \in 1..i :
            log[f][h].now >= Cutoff(log[f][i].now, log[f][i].interval)

\* The timestamps recorded by the first j calls on f.
Recorded(f, j) == { log[f][i].now : i \in 1..j }

\* C16 as stated: after m back-to-back calls for one key on an initially
\* empty map, all within the interval, the map holds exactly m buckets.
C16_OneBucketPerCall ==
  \A f \in Fields : \A j \in 1..Len(log[f]) :
    BackToBack(f, j) => Cardinality(DOMAIN log[f][j].after) = j

\* C16 amended: after m back-to-back calls for one key on an initially empty
\* map, all within the interval, the map holds exactly one bucket per
\* distinct timestamp recorded, which is m buckets when the m timestamps are
\* pairwise distinct.
C16_OneBucketPerTimestamp ==
  \A f \in Fields : \A j \in 1..Len(log[f]) :
    BackToBack(f, j) => /\ DOMAIN log[f][j].after = Recorded(f, j)
                        /\ Cardinality(DOMAIN log[f][j].after)
                             = Cardinality(Recorded(f, j))

\* C16 witness: three back-to-back calls at three distinct timestamps left
\* three buckets, as in the tests.
C16_Witness ==
  \E f \in Fields :
    /\ Len(log[f]) = 3
    /\ BackToBack(f, 3)
    /\ Cardinality(Recorded(f, 3)) = 3
    /\ Cardinality(DOMAIN log[f][3].after) = 3

\* The j-th call on f records a timestamp whose bucket is already in the map.
Collides(f, j) == log[f][j].now \in DOMAIN Before(f, j)

\* What C17 says of the j-th call on f: no more buckets than before, the
\* key's count in the bucket one higher, the other keys of the bucket as they
\* were, and both occurrences inside the returned count.
WritesIntoExisting(f, j) ==
  LET e == log[f][j]
      old == Before(f, j)[e.now]
  IN /\ Cardinality(DOMAIN e.after) <= Cardinality(DOMAIN Before(f, j))
     /\ e.now \in DOMAIN e.after
     /\ e.key \in DOMAIN e.after[e.now]
     /\ e.after[e.now][e.key] = GetOrZero(old, e.key) + 1
     /\ \A k \in DOMAIN old \ {e.key} :
          k \in DOMAIN e.after[e.now] /\ e.after[e.now][k] = old[k]
     /\ e.count >= GetOrZero(old, e.key) + 1

\* C17 as stated: a call that records the timestamp of a bucket already in
\* the map writes into that bucket: the number of buckets does not grow, the
\* key's count in the bucket grows by 1, the other keys keep their counts,
\* and the returned count includes both occurrences.
C17_CollisionAccumulates ==
  \A f \in Fields : \A j \in 1..Len(log[f]) :
    Collides(f, j) => WritesIntoExisting(f, j)

\* C17 amended: the same, for a call whose interval is not negative.
C17_CollisionAccumulatesNonNeg ==
  \A f \in Fields : \A j \in 1..Len(log[f]) :
    (Collides(f, j) /\ log[f][j].interval >= 0) => WritesIntoExisting(f, j)

\* C17 witness: a call with a non-negative interval hit a bucket that held
\* its key and another key, and returned 2.
C17_Witness ==
  \E f \in Fields : \E j \in 1..Len(log[f]) :
    /\ Collides(f, j)
    /\ log[f][j].interval >= 0
    /\ log[f][j].key \in DOMAIN Before(f, j)[log[f][j].now]
    /\ DOMAIN Before(f, j)[log[f][j].now] \ {log[f][j].key} # {}
    /\ log[f][j].count = 2

\* Some thread other than p is inside the critical section of the insert
\* method p called.
HeldByOther(p) ==
  \E q \in Procs \ {p} : InCriticalSection(q) /\ method[q] = method[p]

\* C18: a call on category X can take X's lock whenever no call on X holds
\* it, and once it holds the lock it can insert and then return, whatever
\* the calls on the other categories are doing.
C18_CategoriesNeverContend ==
  \A p \in Procs :
    /\ (pc[p] = "fetched" /\ ~HeldByOther(p)) => ENABLED Acquire(p)
    /\ pc[p] = "locked" => ENABLED Insert(p)
    /\ pc[p] = "inserted" => ENABLED Return(p)

\* C18 witness: a call on one category is about to take its lock while a
\* call on another category holds that category's lock.
C18_Witness ==
  \E p \in Procs, q \in Procs :
    /\ pc[p] = "fetched"
    /\ InCriticalSection(q)
    /\ method[q] # method[p]
    /\ lock[FieldOf(method[q])] = q
    /\ ENABLED Acquire(p)

\* Some call in progress can take a step.
SomeCallCanStep ==
  \E p \in Procs : ENABLED Acquire(p) \/ ENABLED Insert(p) \/ ENABLED Return(p)

\* C19: under fair scheduling every started call eventually returns, and
\* while any call is in progress some call can take a step (no deadlock).
C19_EveryCallReturns ==
  /\ [](( \E p \in Procs : pc[p] # "idle" ) => SomeCallCanStep)
  /\ \A p \in Procs : (pc[p] = "fetched") ~> (pc[p] = "idle")

\* C19 witness: a call waits for the lock of a map that another call holds,
\* after an earlier call on that map has returned.
C19_Witness ==
  \E p \in Procs, q \in Procs :
    /\ pc[p] = "fetched"
    /\ InCriticalSection(q)
    /\ method[q] = method[p]
    /\ ~ENABLED Acquire(p)
    /\ Len(log[FieldOf(method[p])]) > 0

\* C20: in every reachable state of every map, each bucket holds at least
\* one key and every stored count is at least 1.
C20_NoEmptyBucketNoZeroCount ==
  \A f \in Fields : \A t \in DOMAIN seen[f] :
    /\ DOMAIN seen[f][t] # {}
    /\ \A k \in DOMAIN seen[f][t] : seen[f][t][k] >= 1

\* C20 witness: after a call that evicted a bucket, the map left holds a
\* bucket with a key counted twice.
C20_Witness ==
  \E f \in Fields :
    /\ Len(log[f]) > 1
    /\ lock[f] = NoHolder
    /\ DOMAIN Before(f, Len(log[f])) \ DOMAIN seen[f] # {}
    /\ \E t \in DOMAIN seen[f] : \E k \in DOMAIN seen[f][t] : seen[f][t][k] = 2
====
